---- MODULE Spec2Model ----
(***************************************************************************)
(* Area Detector support (apstools/devices/area_detector_support.py):      *)
(* the primed check, the prime sequence, construction of the file-name     *)
(* adapters (HDF5 and JPEG) and their stage() method, as state machines    *)
(* over the controller's channels.                                         *)
(***************************************************************************)
EXTENDS Integers, Sequences, FiniteSets, TLC

VARIABLES
    \* ---- detector (controller channels used by the primer) ----
    cam,            \* camera channels
    plugin,         \* plugin channels used by the primer
    entry,          \* history: the controller as it was when the call began
    ppc,            \* position inside AD_plugin_primed / AD_prime_plugin2
    pidx,           \* index into sigs of the next put
    original_vals,  \* AD_prime_plugin2's snapshot, in sigs order
    primed_result,  \* what AD_plugin_primed returned at entry
    perr,           \* the error surfaced by AD_prime_plugin2, if any
    ptrace,         \* controller accesses made by AD_prime_plugin2
    \* ---- file-name adapter (AD_EpicsHdf5FileName / AD_EpicsJpegFileName) ----
    variant,        \* which adapter class: "HDF5" or "JPEG"
    stage_sigs,     \* the OrderedDict self.stage_sigs, as a sequence of [key, val]
    filestore_spec, \* self.filestore_spec
    read_path_template, \* self.read_path_template
    chan,           \* the plugin's file channels on the controller
    chan0,          \* history: the channels as they were when stage() began
    spc,            \* position inside __init__ / stage()
    sidx,           \* index of the next put (stage() prologue, or stage_sigs)
    loc,            \* stage()'s locals: filename, read_path, write_path, file_number
    self_fn,        \* self._fn
    self_fp,        \* self._fp
    resources,      \* resource documents emitted
    serr,           \* the error surfaced by stage(), if any
    strace,         \* controller accesses and emissions made by stage()
    \* ---- AD_EpicsJpegFileName.generate_datum ----
    datums,         \* the datum_kwargs handed to the base datum generator
    derr,           \* the error generate_datum raised, if any
    dtrace,         \* controller accesses and emissions made by generate_datum
    \* ---- AD_plugin_primed, called on its own ----
    primed_results, \* what the successive calls returned, in order
    primed_trace,   \* controller accesses made by those calls
    \* ---- AD_full_file_name_local ----
    path_plugin,    \* the plugin: full_file_name, read_path_template, write_path_template
    path_pc,        \* "call" before AD_full_file_name_local ran, "returned" after
    path_result,    \* what AD_full_file_name_local returned or raised
    \* ---- AD_setup_FrameType ----
    AD_FrameType_schemes, \* the module-level dict of schemes
    pvs,            \* the controller's FrameType channels, by PV name
    ft_args,        \* the arguments of the call: prefix, scheme
    ft_pc,          \* position inside AD_setup_FrameType
    ft_todo,        \* the fields of db.items() not yet written
    ft_err,         \* the error AD_setup_FrameType raised, if any
    ft_trace        \* the epics.caput calls made

primeVars == <<cam, plugin, entry, ppc, pidx, original_vals, primed_result, perr, ptrace>>

stageVars == <<variant, stage_sigs, filestore_spec, read_path_template, chan, chan0,
               spc, sidx, loc, self_fn, self_fp, resources, serr, strace>>

datumVars == <<datums, derr, dtrace>>

callVars == <<primed_results, primed_trace>>

pathVars == <<path_plugin, path_pc, path_result>>

ftVars == <<AD_FrameType_schemes, pvs, ft_args, ft_pc, ft_todo, ft_err, ft_trace>>

vars == <<primeVars, callVars, stageVars, datumVars, pathVars, ftVars>>

notPrimeVars == <<callVars, stageVars, datumVars, pathVars, ftVars>>

notDetectorVars == <<stageVars, datumVars, pathVars, ftVars>>

notStageVars == <<primeVars, callVars, datumVars, pathVars, ftVars>>

notAdapterVars == <<primeVars, callVars, pathVars, ftVars>>

notPathVars == <<primeVars, callVars, stageVars, datumVars, ftVars>>

notFtVars == <<primeVars, callVars, stageVars, datumVars, pathVars>>

-----------------------------------------------------------------------------
(* Bounds *)

\* array_size components range over 0..MaxDim
MaxDim == 1

\* number of components of array_size kept by the model
NDims == 2

-----------------------------------------------------------------------------
(* Values *)

Sizes == [1..NDims -> 0..MaxDim]

ColorModes == {"Mono", "RGB1"}

DataTypes == {"UInt8", "UInt16"}

RECURSIVE SeqSum(_)
\* np.array(x).sum()
SeqSum(s) == IF s = <<>> THEN 0 ELSE Head(s) + SeqSum(Tail(s))

NoErr == [kind |-> "none", phase |-> "none", step |-> 0]

NoStageErr == [kind |-> "none", path |-> <<>>]

NoDatumErr == [kind |-> "none"]

\* MaxFrames bounds the number of frames generate_datum is called for
MaxFrames == 2

\* MaxFileNumber bounds the controller's file_number when stage() begins
MaxFileNumber == 2

\* MaxBase bounds the number of entries stage_sigs holds before the adapter's __init__
MaxBase == 2

-----------------------------------------------------------------------------
(* AD_plugin_primed *)

\* mutant: the data_type comparison is left out of the checks
PrimedTests_noDataType(c, p) ==
    << SeqSum(c.array_size) # 0,
       SeqSum(p.array_size) # 0,
       c.array_size = p.array_size,
       c.color_mode = p.color_mode >>

\* the list `tests` built by the two loops of AD_plugin_primed
PrimedTests(c, p) ==
    << SeqSum(c.array_size) # 0,
       SeqSum(p.array_size) # 0,
       c.array_size = p.array_size,
       c.color_mode = p.color_mode,
       c.data_type = p.data_type >>

\* return False not in tests
AD_plugin_primed(c, p) ==
    \A i \in 1..Len(PrimedTests(c, p)) : PrimedTests(c, p)[i]

-----------------------------------------------------------------------------
(* AD_prime_plugin2 *)

\* MaxCalls bounds the number of consecutive AD_plugin_primed calls
MaxCalls == 2

\* seconds AD_prime_plugin2 sleeps after the acquire trigger
AcquireWait == 2

\* an acquire time too long for the frame to arrive within AcquireWait
LongTime == 5

\* mutant: the plugin is not enabled before the acquisition
sigs_noEnable ==
    << [dev |-> "cam",    attr |-> "array_callbacks", val |-> 1],
       [dev |-> "cam",    attr |-> "image_mode",      val |-> 0],
       [dev |-> "cam",    attr |-> "trigger_mode",    val |-> 0],
       [dev |-> "cam",    attr |-> "acquire_time",    val |-> 1],
       [dev |-> "cam",    attr |-> "acquire_period",  val |-> 1],
       [dev |-> "cam",    attr |-> "acquire",         val |-> 1] >>

\* the OrderedDict `sigs`: the signals to set, with the priming values
sigs ==
    << [dev |-> "plugin", attr |-> "enable",          val |-> 1],
       [dev |-> "cam",    attr |-> "array_callbacks", val |-> 1],
       [dev |-> "cam",    attr |-> "image_mode",      val |-> 0],
       [dev |-> "cam",    attr |-> "trigger_mode",    val |-> 0],
       [dev |-> "cam",    attr |-> "acquire_time",    val |-> 1],
       [dev |-> "cam",    attr |-> "acquire_period",  val |-> 1],
       [dev |-> "cam",    attr |-> "acquire",         val |-> 1] >>

\* sig.get() on a controller whose channels are c (camera) and p (plugin)
SigGet(c, p, sig) == IF sig.dev = "plugin" THEN p[sig.attr] ELSE c[sig.attr]

\* the camera after an acknowledged set_and_wait(sig, val)
CamPut(c, sig, val) == IF sig.dev = "cam" THEN [c EXCEPT ![sig.attr] = val] ELSE c

\* the plugin after an acknowledged set_and_wait(sig, val)
PluginPut(p, sig, val) == IF sig.dev = "plugin" THEN [p EXCEPT ![sig.attr] = val] ELSE p

\* original_vals = {sig: sig.get() for sig in sigs}
Snapshot(c, p) == [i \in 1..Len(sigs) |-> SigGet(c, p, sigs[i])]

\* the reads made while taking the snapshot
SnapshotReads == [i \in 1..Len(sigs) |-> [op |-> "get", dev |-> sigs[i].dev, attr |-> sigs[i].attr, val |-> 0]]

\* mutant: the early return is missing
AfterPrimedCheck_noReturn(primed) == "snapshot"

\* where AD_prime_plugin2 goes after the primed check: return, or go on
AfterPrimedCheck(primed) == IF primed THEN "done" ELSE "snapshot"

\* mutant: the restore loop walks sigs instead of original_vals
RestoreVal_fromSigs(i) == sigs[i].val

\* the value the restore loop writes to the i-th signal
RestoreVal(i) == original_vals[i]

\* the restore loop walks reversed(list(original_vals.items()))
RestoreFirst == Len(sigs)

\* mutant: the restore loop skips every other signal
RestoreNext_skip(i) == i - 2

\* the restore loop's next index after i (0: the loop is over)
RestoreNext(i) == i - 1

\* mutant: a failed put is caught and the restore loop runs as cleanup
AfterPutFailure_cleanup(phase) == "restore"

\* set_and_wait raised: nothing catches it, the call ends with the error
AfterPutFailure(phase) == "error"

\* does the camera, triggered, push a frame into the plugin while the primer waits?
FrameArrives(c, p) ==
    /\ c.acquire = 1
    /\ c.trigger_mode = 0
    /\ c.acquire_time <= AcquireWait
    /\ c.array_callbacks = 1
    /\ p.enable = 1

FullSize == [i \in 1..NDims |-> MaxDim]

ZeroSize == [i \in 1..NDims |-> 0]

\* the camera after it acquired one image
CamAfterFrame(c) ==
    IF SeqSum(c.array_size) = 0 THEN [c EXCEPT !.array_size = FullSize] ELSE c

\* the plugin after it received the camera's NDarray
PluginAfterFrame(c, p) ==
    [p EXCEPT !.array_size = CamAfterFrame(c).array_size,
              !.color_mode = c.color_mode,
              !.data_type = c.data_type]

PutEntry(kind, sig, v) == [op |-> kind, dev |-> sig.dev, attr |-> sig.attr, val |-> v]

\* the detector any call may find: every combination of the compared fields
DetectorAny ==
    /\ cam \in [array_size : Sizes, color_mode : ColorModes, data_type : DataTypes,
                array_callbacks : {1}, image_mode : {0}, trigger_mode : {0},
                acquire_time : {1}, acquire_period : {1}, acquire : {0, 1}]
    /\ plugin \in [array_size : Sizes, color_mode : ColorModes, data_type : DataTypes,
                   enable : {0, 1}]

\* the detector AD_prime_plugin2 may find: any prior value on the seven channels
DetectorForPrime ==
    /\ cam \in [array_size : {ZeroSize, FullSize}, color_mode : ColorModes,
                data_type : DataTypes,
                array_callbacks : {0, 1}, image_mode : {0, 2}, trigger_mode : {0, 1},
                acquire_time : {1, LongTime}, acquire_period : {1, LongTime},
                acquire : {0, 1}]
    /\ plugin \in [array_size : {ZeroSize, FullSize}, color_mode : ColorModes,
                   data_type : DataTypes, enable : {0, 1}]

PrimeIdle ==
    /\ entry = [cam |-> cam, plugin |-> plugin]
    /\ ppc = "call"
    /\ pidx = 0
    /\ original_vals = <<>>
    /\ primed_result = "unknown"
    /\ perr = NoErr
    /\ ptrace = <<>>

\* AD_plugin_primed(plugin), called on its own
PrimedCall ==
    /\ ppc = "call"
    /\ primed_result' = IF AD_plugin_primed(cam, plugin) THEN "yes" ELSE "no"
    /\ ppc' = "returned"
    /\ UNCHANGED <<cam, plugin, entry, pidx, original_vals, perr, ptrace>>

\* if AD_plugin_primed(plugin): return
PrimeCheck ==
    /\ ppc = "call"
    /\ primed_result' = IF AD_plugin_primed(cam, plugin) THEN "yes" ELSE "no"
    /\ ppc' = AfterPrimedCheck(AD_plugin_primed(cam, plugin))
    /\ UNCHANGED <<cam, plugin, entry, pidx, original_vals, perr, ptrace>>

\* original_vals = {sig: sig.get() for sig in sigs}
PrimeSnapshot ==
    /\ ppc = "snapshot"
    /\ original_vals' = Snapshot(cam, plugin)
    /\ ptrace' = ptrace \o SnapshotReads
    /\ ppc' = "set"
    /\ pidx' = 1
    /\ UNCHANGED <<cam, plugin, entry, primed_result, perr>>

\* for sig, val in sigs.items(): set_and_wait(sig, val)      (acknowledged)
PrimeSet ==
    /\ ppc = "set"
    /\ cam' = CamPut(cam, sigs[pidx], sigs[pidx].val)
    /\ plugin' = PluginPut(plugin, sigs[pidx], sigs[pidx].val)
    /\ ptrace' = Append(ptrace, PutEntry("put", sigs[pidx], sigs[pidx].val))
    /\ IF pidx = Len(sigs)
         THEN ppc' = "wait" /\ pidx' = 0
         ELSE ppc' = "set" /\ pidx' = pidx + 1
    /\ UNCHANGED <<entry, original_vals, primed_result, perr>>

\* set_and_wait(sig, val) in the first loop raises
PrimeSetFail ==
    /\ ppc = "set"
    /\ ptrace' = Append(ptrace, PutEntry("put_failed", sigs[pidx], sigs[pidx].val))
    /\ perr' = [kind |-> "Timeout", phase |-> "set", step |-> pidx]
    /\ ppc' = AfterPutFailure("set")
    /\ UNCHANGED <<cam, plugin, entry, pidx, original_vals, primed_result>>

\* time.sleep(2)  # wait for acquisition
PrimeWait ==
    /\ ppc = "wait"
    /\ IF FrameArrives(cam, plugin)
         THEN /\ cam' = CamAfterFrame(cam)
              /\ plugin' = PluginAfterFrame(cam, plugin)
         ELSE UNCHANGED <<cam, plugin>>
    /\ ppc' = "restore"
    /\ pidx' = RestoreFirst
    /\ UNCHANGED <<entry, original_vals, primed_result, perr, ptrace>>

\* for sig, val in reversed(list(original_vals.items())): set_and_wait(sig, val)
PrimeRestore ==
    /\ ppc = "restore"
    /\ pidx \in 1..Len(sigs)
    /\ cam' = CamPut(cam, sigs[pidx], RestoreVal(pidx))
    /\ plugin' = PluginPut(plugin, sigs[pidx], RestoreVal(pidx))
    /\ ptrace' = Append(ptrace, PutEntry("put", sigs[pidx], RestoreVal(pidx)))
    /\ pidx' = RestoreNext(pidx)
    /\ ppc' = IF RestoreNext(pidx) \in 1..Len(sigs) THEN "restore" ELSE "done"
    /\ UNCHANGED <<entry, original_vals, primed_result, perr>>

\* set_and_wait(sig, val) in the restore loop raises
PrimeRestoreFail ==
    /\ ppc = "restore"
    /\ pidx \in 1..Len(sigs)
    /\ ptrace' = Append(ptrace, PutEntry("put_failed", sigs[pidx], RestoreVal(pidx)))
    /\ perr' = [kind |-> "Timeout", phase |-> "restore", step |-> pidx]
    /\ ppc' = AfterPutFailure("restore")
    /\ UNCHANGED <<cam, plugin, entry, pidx, original_vals, primed_result>>

\* the file-name adapter is not in use
StageUnused ==
    /\ variant = "none"
    /\ stage_sigs = <<>>
    /\ filestore_spec = "none"
    /\ read_path_template = <<>>
    /\ chan = <<>>
    /\ chan0 = <<>>
    /\ spc = "unused"
    /\ sidx = 0
    /\ loc = <<>>
    /\ self_fn = <<>>
    /\ self_fp = <<>>
    /\ resources = <<>>
    /\ serr = NoStageErr
    /\ strace = <<>>

\* AD_plugin_primed has not been called on its own
NoCalls ==
    /\ primed_results = <<>>
    /\ primed_trace = <<>>

\* no frame has been acquired: generate_datum was not called
NoDatums ==
    /\ datums = <<>>
    /\ derr = NoDatumErr
    /\ dtrace = <<>>

\* AD_full_file_name_local is not in use
PathUnused ==
    /\ path_plugin = <<>>
    /\ path_pc = "unused"
    /\ path_result = <<>>

\* AD_setup_FrameType is not in use
FrameTypeUnused ==
    /\ AD_FrameType_schemes = <<>>
    /\ pvs = <<>>
    /\ ft_args = <<>>
    /\ ft_pc = "unused"
    /\ ft_todo = <<>>
    /\ ft_err = <<>>
    /\ ft_trace = <<>>

InitPrimed == DetectorAny /\ PrimeIdle /\ StageUnused /\ NoDatums /\ NoCalls /\ PathUnused /\ FrameTypeUnused

NextPrimed == PrimedCall /\ UNCHANGED notPrimeVars

SpecPrimed == InitPrimed /\ [][NextPrimed]_vars

InitPrime == DetectorForPrime /\ PrimeIdle /\ StageUnused /\ NoDatums /\ NoCalls /\ PathUnused /\ FrameTypeUnused

NextPrime ==
    \/ PrimeCheck /\ UNCHANGED notPrimeVars
    \/ PrimeSnapshot /\ UNCHANGED notPrimeVars
    \/ PrimeSet /\ UNCHANGED notPrimeVars
    \/ PrimeSetFail /\ UNCHANGED notPrimeVars
    \/ PrimeWait /\ UNCHANGED notPrimeVars
    \/ PrimeRestore /\ UNCHANGED notPrimeVars
    \/ PrimeRestoreFail /\ UNCHANGED notPrimeVars

SpecPrime == InitPrime /\ [][NextPrime]_vars

-----------------------------------------------------------------------------
(* AD_plugin_primed, called repeatedly *)

Read(dev, attr) == [op |-> "get", dev |-> dev, attr |-> attr, val |-> 0]

\* mutant: the check enables the plugin before it compares
PrimedAccesses_enable ==
    << [op |-> "put", dev |-> "plugin", attr |-> "enable", val |-> 1],
       Read("cam", "array_size"), Read("plugin", "array_size"),
       Read("cam", "array_size"), Read("plugin", "array_size"),
       Read("cam", "color_mode"), Read("plugin", "color_mode"),
       Read("cam", "data_type"), Read("plugin", "data_type") >>

\* the channel operations of AD_plugin_primed, in order: obj.array_size.get()
\* for cam and plugin, then getattr(cam, key).get / getattr(plugin, key).get
\* for array_size, color_mode, data_type
PrimedAccesses ==
    << Read("cam", "array_size"), Read("plugin", "array_size"),
       Read("cam", "array_size"), Read("plugin", "array_size"),
       Read("cam", "color_mode"), Read("plugin", "color_mode"),
       Read("cam", "data_type"), Read("plugin", "data_type") >>

RECURSIVE AfterAccesses(_, _, _)
\* the controller after the operations accs: a get changes nothing, a put
\* leaves its value on the channel
AfterAccesses(c, p, accs) ==
    IF accs = <<>> THEN [cam |-> c, plugin |-> p]
    ELSE LET a == Head(accs)
         IN  IF a.op = "put"
               THEN AfterAccesses(CamPut(c, a, a.val), PluginPut(p, a, a.val), Tail(accs))
               ELSE AfterAccesses(c, p, Tail(accs))

\* one call of AD_plugin_primed(plugin)
PrimedCallAgain ==
    /\ ppc = "call"
    /\ Len(primed_results) < MaxCalls
    /\ primed_results' = Append(primed_results, AD_plugin_primed(cam, plugin))
    /\ primed_trace' = primed_trace \o PrimedAccesses
    /\ cam' = AfterAccesses(cam, plugin, PrimedAccesses).cam
    /\ plugin' = AfterAccesses(cam, plugin, PrimedAccesses).plugin
    /\ UNCHANGED <<entry, ppc, pidx, original_vals, primed_result, perr, ptrace>>

InitCalls == InitPrimed

NextCalls == PrimedCallAgain /\ UNCHANGED notDetectorVars

SpecCalls == InitCalls /\ [][NextCalls]_vars

-----------------------------------------------------------------------------
(* Strings: a string is a sequence of tokens *)

\* the year datetime.datetime.now().strftime puts in place of %Y
Year == "2024"

\* datetime.datetime.now().strftime(path)
Strftime(path) == [i \in 1..Len(path) |-> IF path[i] = "%Y" THEN Year ELSE path[i]]

Digit(k) == <<"0", "1", "2", "3", "4", "5", "6", "7", "8", "9">>[k + 1]

\* "%4.4d" % n, for 0 <= n <= 9999
Pad4(n) == << Digit((n \div 1000) % 10), Digit((n \div 100) % 10),
              Digit((n \div 10) % 10), Digit(n % 10) >>

RECURSIVE Decimal(_)
\* str(n), for n >= 0
Decimal(n) == IF n < 10 THEN <<Digit(n)>> ELSE Decimal(n \div 10) \o <<Digit(n % 10)>>

StrArg(v) == [kind |-> "str", val |-> v]

IntArg(n) == [kind |-> "int", val |-> n]

TypeError == [ok |-> FALSE, val |-> <<>>]

RECURSIVE Format(_, _)
\* template % args: each %s takes the next argument as a string, each %4.4d the
\* next argument, which must be a number; too few or too many arguments, or a
\* string where a number is required, raise TypeError
Format(template, args) ==
    IF template = <<>>
      THEN IF args = <<>> THEN [ok |-> TRUE, val |-> <<>>] ELSE TypeError
      ELSE LET tok == Head(template)
               slot == tok \in {"%s", "%4.4d"}
           IN IF slot /\ args = <<>> THEN TypeError
              ELSE IF tok = "%4.4d" /\ Head(args).kind # "int" THEN TypeError
              ELSE LET rest == Format(Tail(template), IF slot THEN Tail(args) ELSE args)
                       piece == IF tok = "%s"
                                  THEN (IF Head(args).kind = "int"
                                          THEN Decimal(Head(args).val)
                                          ELSE Head(args).val)
                                  ELSE IF tok = "%4.4d" THEN Pad4(Head(args).val)
                                  ELSE <<tok>>
                   IN IF rest.ok THEN [ok |-> TRUE, val |-> piece \o rest.val]
                      ELSE TypeError

-----------------------------------------------------------------------------
(* self.stage_sigs: an OrderedDict as a sequence of [key, val] *)

Keys(d) == {d[i].key : i \in DOMAIN d}

IndexOf(d, k) == CHOOSE i \in DOMAIN d : d[i].key = k

\* d[k] = v: an existing key keeps its place, a new key goes to the end
DictSet(d, k, v) ==
    IF k \in Keys(d)
      THEN [d EXCEPT ![IndexOf(d, k)] = [key |-> k, val |-> v]]
      ELSE Append(d, [key |-> k, val |-> v])

RECURSIVE DictUpdate(_, _)
\* d.update(pairs)
DictUpdate(d, pairs) ==
    IF pairs = <<>> THEN d
    ELSE DictUpdate(DictSet(d, Head(pairs).key, Head(pairs).val), Tail(pairs))

\* d.pop(k)
DictPop(d, k) == SelectSeq(d, LAMBDA e : e.key # k)

DictGet(d, k) == d[IndexOf(d, k)].val

\* self.stage_sigs["capture"] = self.stage_sigs.pop("capture")
CaptureLast(d) == DictSet(DictPop(d, "capture"), "capture", DictGet(d, "capture"))

Hdf5Template == <<"%s", "%s", "_", "%4.4d", ".h5">>

JpegTemplate == <<"%s", "%s", "_", "%4.4d", ".jpg">>

\* AD_EpicsHdf5FileName.__init__, after FileStorePluginBase.__init__ left d
Hdf5StageSigs(d) ==
    CaptureLast(DictUpdate(d, << [key |-> "create_directory", val |-> -5],
                                 [key |-> "file_template",    val |-> Hdf5Template],
                                 [key |-> "file_write_mode",  val |-> "Stream"],
                                 [key |-> "capture",          val |-> 1] >>))

\* AD_EpicsJpegFileName.__init__, after FileStorePluginBase.__init__ left d
JpegStageSigs(d) ==
    DictUpdate(d, << [key |-> "file_template",   val |-> JpegTemplate],
                     [key |-> "file_write_mode", val |-> "Stream"],
                     [key |-> "capture",         val |-> 1] >>)

\* self.filestore_spec, the spec name stored in the resource document
FilestoreSpec(v) == IF v = "HDF5" THEN "AD_HDF5" ELSE "AD_JPEG"

-----------------------------------------------------------------------------
(* The adapters: __init__ and stage() *)

Variants == {"HDF5", "JPEG"}

FileNames == {<<"scan">>, <<"run">>}

FilePaths == {<<"/data/">>, <<"/data/", "%Y", "/">>}

ReadPathTemplates == {<<"/mnt/">>, <<"/mnt/", "%Y", "/">>}

\* file_template values a user may put into stage_sigs: without the file number
\* (as the class docstring allows), and one with a single slot
UserTemplates == {<<"%s", "%s", ".h5">>, <<"%s", ".h5">>}

BaseKeys == {"capture", "num_capture", "array_counter"}

BaseVal(k) == IF k = "capture" THEN 1 ELSE 0

\* what FileStorePluginBase.__init__ may leave in stage_sigs: distinct keys, any order
BaseCollections ==
    { [i \in DOMAIN ks |-> [key |-> ks[i], val |-> BaseVal(ks[i])]] :
        ks \in { q \in UNION { [1..n -> BaseKeys] : n \in 0..MaxBase } :
                    \A i, j \in DOMAIN q : i # j => q[i] # q[j] } }

NoLocals == [filename |-> <<>>, read_path |-> <<>>, write_path |-> <<>>, file_number |-> -1]

Access(kind, k, v) == [op |-> kind, attr |-> k, val |-> v]

AdapterNew ==
    /\ variant \in Variants
    /\ stage_sigs \in BaseCollections
    /\ filestore_spec = "none"
    /\ read_path_template \in ReadPathTemplates
    /\ chan \in [capture : {0, 1}, file_path : FilePaths, file_name : FileNames,
                 file_number : 0..MaxFileNumber, file_template : {JpegTemplate},
                 file_write_mode : {"Single"}, create_directory : {0},
                 num_capture : {1, 3}, array_counter : {3},
                 file_path_exists : BOOLEAN]
    /\ chan0 = chan
    /\ spc = "new"
    /\ sidx = 0
    /\ loc = NoLocals
    /\ self_fn = <<>>
    /\ self_fp = <<>>
    /\ resources = <<>>
    /\ serr = NoStageErr
    /\ strace = <<>>

\* AD_EpicsHdf5FileName.__init__ / AD_EpicsJpegFileName.__init__
Construct ==
    /\ spc = "new"
    /\ filestore_spec' = FilestoreSpec(variant)
    /\ stage_sigs' = IF variant = "HDF5" THEN Hdf5StageSigs(stage_sigs)
                                         ELSE JpegStageSigs(stage_sigs)
    /\ spc' = "constructed"
    /\ UNCHANGED <<variant, read_path_template, chan, chan0, sidx, loc, self_fn,
                   self_fp, resources, serr, strace>>

\* the user sets stage_sigs["file_template"] (class docstring: file_template="%s%s.h5")
SetTemplate ==
    /\ spc = "constructed"
    /\ \E t \in UserTemplates : stage_sigs' = DictSet(stage_sigs, "file_template", t)
    /\ spc' = "configured"
    /\ UNCHANGED <<variant, filestore_spec, read_path_template, chan, chan0, sidx, loc,
                   self_fn, self_fp, resources, serr, strace>>

\* mutant: the JPEG adapter translates the path as the HDF5 adapter does
make_filename_translated(v, c, rpt) ==
    [filename |-> c.file_name,
     read_path |-> Strftime(rpt),
     write_path |-> Strftime(c.file_path)]

\* make_filename(): (filename, read_path, write_path)
make_filename(v, c, rpt) ==
    IF v = "HDF5"
      THEN [filename |-> c.file_name,
            read_path |-> Strftime(rpt),
            write_path |-> Strftime(c.file_path)]
      ELSE [filename |-> c.file_name,
            read_path |-> c.file_path,
            write_path |-> c.file_path]

\* filename, read_path, write_path = self.make_filename()
StageMakeFilename ==
    /\ spc \in {"constructed", "configured"}
    /\ loc' = [filename |-> make_filename(variant, chan, read_path_template).filename,
               read_path |-> make_filename(variant, chan, read_path_template).read_path,
               write_path |-> make_filename(variant, chan, read_path_template).write_path,
               file_number |-> -1]
    /\ strace' = strace \o << Access("get", "file_name", chan.file_name),
                              Access("get", "file_path", chan.file_path) >>
    /\ spc' = "prologue"
    /\ sidx' = 1
    /\ UNCHANGED <<variant, stage_sigs, filestore_spec, read_path_template, chan, chan0,
                   self_fn, self_fp, resources, serr>>

\* the three set_and_wait calls that precede the read of file_number
PrologueSigs(l) ==
    << [key |-> "capture",   val |-> 0],
       [key |-> "file_path", val |-> l.write_path],
       [key |-> "file_name", val |-> l.filename] >>

\* what the controller may report in file_path_exists once file_path holds v
PathExistsAfter(c, k, v) ==
    IF k = "file_path" /\ v # c.file_path THEN BOOLEAN ELSE {c.file_path_exists}

\* by how much the controller may advance file_number when k is set to v
\* ("it is incremented during stage()": when capture is switched on)
FileNumberStep(c, k, v) ==
    IF k = "capture" /\ v = 1 THEN {0, 1} ELSE {0}

\* the channels after an acknowledged set_and_wait(self.<k>, v)
ChanPut(c, k, v, ex, inc) ==
    [[c EXCEPT ![k] = v] EXCEPT !.file_path_exists = ex,
                                !.file_number = c.file_number + inc]

\* set_and_wait(self.capture, 0); set_and_wait(self.file_path, write_path);
\* set_and_wait(self.file_name, filename)
StagePut ==
    /\ spc = "prologue"
    /\ LET e == PrologueSigs(loc)[sidx]
       IN /\ \E ex \in PathExistsAfter(chan, e.key, e.val) :
                chan' = ChanPut(chan, e.key, e.val, ex, 0)
          /\ strace' = Append(strace, Access("put", e.key, e.val))
    /\ IF sidx = Len(PrologueSigs(loc))
         THEN spc' = "file_number" /\ sidx' = 0
         ELSE spc' = "prologue" /\ sidx' = sidx + 1
    /\ UNCHANGED <<variant, stage_sigs, filestore_spec, read_path_template, chan0, loc,
                   self_fn, self_fp, resources, serr>>

\* the ways a set_and_wait may fail: no answer in time, or a value the channel
\* cannot take
PutFailures == {"Timeout", "TypeMismatch"}

\* mutant: the exception is caught and stage() goes on with its next step
AfterStageFailure_swallowed(phase) == IF phase = "prologue" THEN "file_number" ELSE "template"

\* set_and_wait raised inside stage(): nothing catches it, stage() ends with the error
AfterStageFailure(phase) == "error"

\* one of those set_and_wait calls raises
StagePutFail ==
    /\ spc = "prologue"
    /\ strace' = Append(strace, Access("put_failed", PrologueSigs(loc)[sidx].key,
                                       PrologueSigs(loc)[sidx].val))
    /\ \E k \in PutFailures : serr' = [kind |-> k, path |-> <<>>]
    /\ spc' = AfterStageFailure("prologue")
    /\ UNCHANGED <<variant, stage_sigs, filestore_spec, read_path_template, chan, chan0,
                   sidx, loc, self_fn, self_fp, resources>>

\* file_number = self.file_number.get()
StageFileNumber ==
    /\ spc = "file_number"
    /\ loc' = [loc EXCEPT !.file_number = chan.file_number]
    /\ strace' = Append(strace, Access("get", "file_number", chan.file_number))
    /\ spc' = IF stage_sigs = <<>> THEN "template" ELSE "base"
    /\ sidx' = IF stage_sigs = <<>> THEN 0 ELSE 1
    /\ UNCHANGED <<variant, stage_sigs, filestore_spec, read_path_template, chan, chan0,
                   self_fn, self_fp, resources, serr>>

\* FileStoreBase.stage(self): the stage_sigs are applied in order, one
\* set_and_wait each
StageBase ==
    /\ spc = "base"
    /\ LET e == stage_sigs[sidx]
       IN /\ \E inc \in FileNumberStep(chan, e.key, e.val) :
                chan' = ChanPut(chan, e.key, e.val, chan.file_path_exists, inc)
          /\ strace' = Append(strace, Access("put", e.key, e.val))
    /\ IF sidx = Len(stage_sigs)
         THEN spc' = "template" /\ sidx' = 0
         ELSE spc' = "base" /\ sidx' = sidx + 1
    /\ UNCHANGED <<variant, stage_sigs, filestore_spec, read_path_template, chan0, loc,
                   self_fn, self_fp, resources, serr>>

\* a set_and_wait inside FileStoreBase.stage(self) raises
StageBaseFail ==
    /\ spc = "base"
    /\ strace' = Append(strace, Access("put_failed", stage_sigs[sidx].key,
                                       stage_sigs[sidx].val))
    /\ \E k \in PutFailures : serr' = [kind |-> k, path |-> <<>>]
    /\ spc' = AfterStageFailure("base")
    /\ UNCHANGED <<variant, stage_sigs, filestore_spec, read_path_template, chan, chan0,
                   sidx, loc, self_fn, self_fp, resources>>

\* mutant: the file number is read again when the name is reconstructed
SnapshotFileNumber_late(l, c) == c.file_number

\* the file number line 393 / 579 puts into the reconstructed filename
SnapshotFileNumber(l, c) == l.file_number

\* mutant: the three-argument form only, without the except branch
ReconstructedName_noFallback(template, l, c) ==
    Format(template, << StrArg(l.read_path), StrArg(l.filename),
                        IntArg(SnapshotFileNumber(l, c)) >>)

\* try: template % (read_path, filename, file_number)
\* except TypeError: template % (read_path, filename)
ReconstructedName(template, l, c) ==
    IF Format(template, << StrArg(l.read_path), StrArg(l.filename),
                           IntArg(SnapshotFileNumber(l, c)) >>).ok
      THEN Format(template, << StrArg(l.read_path), StrArg(l.filename),
                               IntArg(SnapshotFileNumber(l, c)) >>)
      ELSE Format(template, << StrArg(l.read_path), StrArg(l.filename) >>)

\* template = self.file_template.get(); self._fn = ...; self._fp = read_path
StageTemplate ==
    /\ spc = "template"
    /\ strace' = Append(strace, Access("get", "file_template", chan.file_template))
    /\ IF ReconstructedName(chan.file_template, loc, chan).ok
         THEN /\ self_fn' = ReconstructedName(chan.file_template, loc, chan).val
              /\ self_fp' = loc.read_path
              /\ spc' = "path_check"
              /\ UNCHANGED serr
         ELSE /\ serr' = [kind |-> "TypeError", path |-> <<>>]
              /\ spc' = "error"
              /\ UNCHANGED <<self_fn, self_fp>>
    /\ UNCHANGED <<variant, stage_sigs, filestore_spec, read_path_template, chan, chan0,
                   sidx, loc, resources>>

\* mutant: the path check never fails
PathOk_always(exists) == TRUE

\* the test of `if not self.file_path_exists.get()`: may stage() go on?
PathOk(exists) == exists

\* if not self.file_path_exists.get(): raise IOError(f"Path '{self.file_path.get()}' ...")
StagePathCheck ==
    /\ spc = "path_check"
    /\ IF PathOk(chan.file_path_exists)
         THEN /\ strace' = Append(strace, Access("get", "file_path_exists", chan.file_path_exists))
              /\ spc' = "emit"
              /\ UNCHANGED serr
         ELSE /\ strace' = strace \o << Access("get", "file_path_exists", chan.file_path_exists),
                                        Access("get", "file_path", chan.file_path) >>
              /\ serr' = [kind |-> "PathMissing", path |-> chan.file_path]
              /\ spc' = "error"
    /\ UNCHANGED <<variant, stage_sigs, filestore_spec, read_path_template, chan, chan0,
                   sidx, loc, self_fn, self_fp, resources>>

\* mutant: one frame per point, whatever num_capture holds
get_frames_per_point_one(c) == 1

\* get_frames_per_point(): return self.num_capture.get()
get_frames_per_point(c) == c.num_capture

\* res_kwargs = {"frame_per_point": self.get_frames_per_point()}
\* self._generate_resource(res_kwargs)
StageEmit ==
    /\ spc = "emit"
    /\ resources' = Append(resources, [spec |-> filestore_spec,
                                       frame_per_point |-> get_frames_per_point(chan)])
    /\ strace' = strace \o << Access("get", "num_capture", chan.num_capture),
                              Access("emit", "resource", filestore_spec) >>
    /\ spc' = "staged"
    /\ UNCHANGED <<variant, stage_sigs, filestore_spec, read_path_template, chan, chan0,
                   sidx, loc, self_fn, self_fp, serr>>

\* the primer is not in use
PrimeUnused ==
    /\ cam = <<>>
    /\ plugin = <<>>
    /\ entry = <<>>
    /\ ppc = "unused"
    /\ pidx = 0
    /\ original_vals = <<>>
    /\ primed_result = "unknown"
    /\ perr = NoErr
    /\ ptrace = <<>>

InitStage == AdapterNew /\ NoDatums /\ NoCalls /\ PrimeUnused /\ PathUnused /\ FrameTypeUnused

NextStage ==
    \/ Construct /\ UNCHANGED notStageVars
    \/ SetTemplate /\ UNCHANGED notStageVars
    \/ StageMakeFilename /\ UNCHANGED notStageVars
    \/ StagePut /\ UNCHANGED notStageVars
    \/ StagePutFail /\ UNCHANGED notStageVars
    \/ StageFileNumber /\ UNCHANGED notStageVars
    \/ StageBase /\ UNCHANGED notStageVars
    \/ StageBaseFail /\ UNCHANGED notStageVars
    \/ StageTemplate /\ UNCHANGED notStageVars
    \/ StagePathCheck /\ UNCHANGED notStageVars
    \/ StageEmit /\ UNCHANGED notStageVars

SpecStage == InitStage /\ [][NextStage]_vars

-----------------------------------------------------------------------------
(* AD_EpicsJpegFileName.generate_datum *)

\* jpeg_file_name = template % (read_path, filename, file_number)
JpegFileName(template, mf, n) ==
    Format(template, << StrArg(mf.read_path), StrArg(mf.filename), IntArg(n) >>)

\* the reads of lines 531-533, in order
DatumReads(c) ==
    << Access("get", "file_template", c.file_template),
       Access("get", "file_name", c.file_name),
       Access("get", "file_path", c.file_path),
       Access("get", "file_number", c.file_number) >>

\* generate_datum(key, timestamp, datum_kwargs), called once per acquired frame
\* of a staged JPEG adapter with an empty datum_kwargs
GenerateDatum ==
    /\ variant = "JPEG"
    /\ spc = "staged"
    /\ derr = NoDatumErr
    /\ Len(datums) < MaxFrames
    /\ LET mf == make_filename(variant, chan, read_path_template)
           jpeg_file_name == JpegFileName(chan.file_template, mf, chan.file_number)
       IN  IF jpeg_file_name.ok
             THEN /\ datums' = Append(datums, DictSet(<<>>, "JPEG_file_name",
                                                      jpeg_file_name.val))
                  /\ dtrace' = dtrace \o DatumReads(chan)
                                      \o << Access("datum", "JPEG_file_name",
                                                   jpeg_file_name.val) >>
                  /\ derr' = derr
             ELSE /\ derr' = [kind |-> "TypeError"]
                  /\ dtrace' = dtrace \o DatumReads(chan)
                  /\ datums' = datums
    /\ UNCHANGED stageVars

\* the controller writes the frame's file and advances file_number
FrameSaved ==
    /\ dtrace # <<>>
    /\ dtrace[Len(dtrace)].op = "datum"
    /\ chan' = [chan EXCEPT !.file_number = chan.file_number + 1]
    /\ dtrace' = Append(dtrace, Access("saved", "file_number", chan.file_number + 1))
    /\ UNCHANGED <<variant, stage_sigs, filestore_spec, read_path_template, chan0,
                   spc, sidx, loc, self_fn, self_fp, resources, serr, strace,
                   datums, derr>>

InitDatum == InitStage /\ variant = "JPEG"

NextDatum ==
    \/ Construct /\ UNCHANGED notStageVars
    \/ SetTemplate /\ UNCHANGED notStageVars
    \/ StageMakeFilename /\ UNCHANGED notStageVars
    \/ StagePut /\ UNCHANGED notStageVars
    \/ StagePutFail /\ UNCHANGED notStageVars
    \/ StageFileNumber /\ UNCHANGED notStageVars
    \/ StageBase /\ UNCHANGED notStageVars
    \/ StageBaseFail /\ UNCHANGED notStageVars
    \/ StageTemplate /\ UNCHANGED notStageVars
    \/ StagePathCheck /\ UNCHANGED notStageVars
    \/ StageEmit /\ UNCHANGED notStageVars
    \/ GenerateDatum /\ UNCHANGED notAdapterVars
    \/ FrameSaved /\ UNCHANGED notAdapterVars

SpecDatum == InitDatum /\ [][NextDatum]_vars

-----------------------------------------------------------------------------
(* AD_full_file_name_local *)

\* MaxParts bounds the number of directory names in a path template
MaxParts == 2

\* MaxTail bounds the number of names a file name adds below its directory
MaxTail == 2

DirNames == {"a", "b"}

TailNames == {"b", "f"}

SeqsUpTo(S, n) == UNION { [1..k -> S] : k \in 0..n }

\* a path template string: absolute or relative, its directory names, and
\* whether it ends with "/"
PathTemplates ==
    { t \in [abs : BOOLEAN, comps : SeqsUpTo(DirNames, MaxParts), slash : BOOLEAN] :
        t.slash => t.comps # <<>> }

\* the strings full_file_name may hold for templates w and r: a name below one
\* of the two directories or a bare name, with or without surrounding
\* whitespace; the empty string and the blank string are among them
FullFileNames(w, r) ==
    { [ws |-> ws, abs |-> base.abs, comps |-> base.comps \o x] :
        ws \in BOOLEAN,
        base \in {w, r, [abs |-> FALSE, comps |-> <<>>, slash |-> FALSE]},
        x \in SeqsUpTo(TailNames, MaxTail) }

\* str.strip()
strip(f) == [f EXCEPT !.ws = FALSE]

\* mutant: the test for an empty name is missing
IsEmptyString_never(f) == FALSE

\* fname == ""
IsEmptyString(f) == ~f.ws /\ ~f.abs /\ f.comps = <<>>

\* pathlib.Path(string).parts: the root, if any, then the names
parts(p) == (IF p.abs THEN <<"/">> ELSE <<>>) \o p.comps

\* seq[-n:], for 1 <= n <= len(seq)
LastParts(seq, n) == SubSeq(seq, Len(seq) - n + 1, Len(seq))

\* seq[:-n]   (python: seq[:-0] is empty)
AllButLast(seq, n) == IF n = 0 THEN <<>> ELSE SubSeq(seq, 1, Len(seq) - n)

\* seq[n:]
From(seq, n) == SubSeq(seq, n + 1, Len(seq))

Min(a, b) == IF a <= b THEN a ELSE b

RECURSIVE CommonLoop(_, _, _)
\* for i in range(min(len(rparts), len(wparts))): the first i at which the last
\* i+1 parts differ, and 0 when the loop ends without a break
CommonLoop(rparts, wparts, i) ==
    IF i >= Min(Len(rparts), Len(wparts)) THEN 0
    ELSE IF LastParts(rparts, i + 1) # LastParts(wparts, i + 1) THEN i
    ELSE CommonLoop(rparts, wparts, i + 1)

\* pathlib.Path().joinpath(*more) on a path whose parts are root: an absolute
\* part restarts the path
joinpath(root, more) == IF more # <<>> /\ Head(more) = "/" THEN more ELSE root \o more

\* mutant: the templates are never found equal
TemplatesEqual_never(r, w) == FALSE

\* plugin.read_path_template == plugin.write_path_template (two strings)
TemplatesEqual(r, w) == r = w

\* mutant: the check for no common part is left out
NoCommonPart_never(icommon) == FALSE

\* if icommon == 0: raise ValueError
NoCommonPart(icommon) == icommon = 0

ReturnsNone == [kind |-> "None", parts |-> <<>>]

RaisesValueError == [kind |-> "ValueError", parts |-> <<>>]

ReturnsPath(pp) == [kind |-> "path", parts |-> pp]

\* AD_full_file_name_local(plugin)
AD_full_file_name_local(p) ==
    LET fname == strip(p.full_file_name)
        rparts == parts(p.read_path_template)
        wparts == parts(p.write_path_template)
        icommon == CommonLoop(rparts, wparts, 0)
        local_root == joinpath(<<>>, AllButLast(rparts, icommon))
        common_parts == From(parts(fname), Len(AllButLast(wparts, icommon)))
    IN  IF IsEmptyString(fname) THEN ReturnsNone
        ELSE IF TemplatesEqual(p.read_path_template, p.write_path_template)
               THEN ReturnsPath(parts(fname))
        ELSE IF NoCommonPart(icommon) THEN RaisesValueError
        ELSE ReturnsPath(joinpath(local_root, common_parts))

PathIdle ==
    /\ \E w, r \in PathTemplates :
         \E f \in FullFileNames(w, r) :
            path_plugin = [full_file_name |-> f, read_path_template |-> r,
                           write_path_template |-> w]
    /\ path_pc = "call"
    /\ path_result = ReturnsNone

\* a call of AD_full_file_name_local(plugin)
PathCall ==
    /\ path_pc = "call"
    /\ path_result' = AD_full_file_name_local(path_plugin)
    /\ path_pc' = "returned"
    /\ UNCHANGED path_plugin

InitPath == PathIdle /\ PrimeUnused /\ StageUnused /\ NoDatums /\ NoCalls /\ FrameTypeUnused

NextPath == PathCall /\ UNCHANGED notPathVars

SpecPath == InitPath /\ [][NextPath]_vars

-----------------------------------------------------------------------------
(* AD_setup_FrameType *)

Field(k, v) == [key |-> k, val |-> v]

\* the module-level table as the source writes it; a dict keeps insertion order
BuiltinSchemes ==
    << [key |-> "reset",
        val |-> << Field("ZRST", "Normal"),
                   Field("ONST", "Background"),
                   Field("TWST", "FlatField") >>],
       [key |-> "NeXus",
        val |-> << Field("ZRST", "/entry/data/data"),
                   Field("ONST", "/entry/data/dark"),
                   Field("TWST", "/entry/data/white") >>],
       [key |-> "DataExchange",
        val |-> << Field("ZRST", "/exchange/data"),
                   Field("ONST", "/exchange/data_dark"),
                   Field("TWST", "/exchange/data_white") >>] >>

\* names a caller adds to the table, and a name nobody registers
RuntimeNames == {"mine", "other"}

SchemeArgs == Keys(BuiltinSchemes) \cup RuntimeNames \cup {"Invalid"}

\* "storage values for the fields of the EPICS mbbo record that you will be
\* using": the caller chooses the fields
RuntimeMappings ==
    { << Field("ZRST", "/my/data"), Field("ONST", "/my/dark"),
         Field("TWST", "/my/white") >>,
      << Field("ZRST", "/my/data"), Field("ONST", "/my/dark") >>,
      << Field("ZRST", "/my/data"), Field("ONST", "/my/dark"),
         Field("TWST", "/my/white"), Field("THST", "/my/extra") >> }

Prefixes == {"13SIM1:", "X:"}

Records == {"", "_RBV"}

MbboFields == {"ZRST", "ONST", "TWST", "THST"}

\* "{}cam1:FrameType{}.{}".format(prefix, rbv, field)
PVName(prefix, rbv, field) == <<prefix, "cam1:FrameType", rbv, ".", field>>

AllPVs == {PVName(p, r, f) : p \in Prefixes, r \in Records, f \in MbboFields}

InitialPVs == {[n \in AllPVs |-> v] : v \in {"", "Normal"}}

\* epics.caput(pvname, value) on a connected channel
caput(chans, pvname, value) == [chans EXCEPT ![pvname] = value]

\* dict.get(k): None when k is not a key
Get(d, k) == IF k \in Keys(d) THEN [found |-> TRUE, val |-> DictGet(d, k)]
             ELSE [found |-> FALSE]

\* sep.join(names)
RECURSIVE Join(_, _)
Join(sep, names) ==
    IF names = <<>> THEN <<>>
    ELSE IF Len(names) = 1 THEN names
    ELSE <<Head(names), sep>> \o Join(sep, Tail(names))

KeySeq(d) == [i \in DOMAIN d |-> d[i].key]

ListedNames_onlyFirst(d) == <<d[1].key>>

\* AD_FrameType_schemes.keys()
ListedNames(d) == KeySeq(d)

UnknownScheme(scheme, d) ==
    [kind |-> "ValueError",
     msg  |-> <<"unknown AD_FrameType_schemes scheme: ", scheme,
                "\n Should be one of: ">> \o Join(", ", ListedNames(d))]

LoopItems_firstOnly(db) == <<Head(db)>>

\* db.items()
LoopItems(db) == db

FrameTypeIdle ==
    /\ AD_FrameType_schemes = BuiltinSchemes
    /\ pvs \in InitialPVs
    /\ ft_args = <<>>
    /\ ft_pc = "idle"
    /\ ft_todo = <<>>
    /\ ft_err = <<>>
    /\ ft_trace = <<>>

\* AD_FrameType_schemes[name] = mapping, by the caller before the call
RegisterScheme ==
    /\ ft_pc = "idle"
    /\ \E name \in RuntimeNames, mapping \in RuntimeMappings :
         AD_FrameType_schemes' = DictSet(AD_FrameType_schemes, name, mapping)
    /\ UNCHANGED <<pvs, ft_args, ft_pc, ft_todo, ft_err, ft_trace>>

\* the call, up to the loop: the lookup and the raise
SetupCall ==
    /\ ft_pc = "idle"
    /\ \E prefix \in Prefixes, scheme \in SchemeArgs :
         LET db == Get(AD_FrameType_schemes, scheme)
         IN  /\ ft_args' = [prefix |-> prefix, scheme |-> scheme]
             /\ IF db.found
                  THEN /\ ft_todo' = LoopItems(db.val)
                       /\ ft_pc' = "loop"
                       /\ ft_err' = ft_err
                  ELSE /\ ft_err' = UnknownScheme(scheme, AD_FrameType_schemes)
                       /\ ft_pc' = "error"
                       /\ ft_todo' = ft_todo
    /\ UNCHANGED <<AD_FrameType_schemes, pvs, ft_trace>>

\* one pass of the loop body: the two caput calls for one field
SetupPut ==
    /\ ft_pc = "loop"
    /\ ft_todo # <<>>
    /\ LET field == Head(ft_todo).key
           value == Head(ft_todo).val
           pv    == PVName(ft_args.prefix, "", field)
           rbv   == PVName(ft_args.prefix, "_RBV", field)
       IN  /\ pvs' = caput(caput(pvs, pv, value), rbv, value)
           /\ ft_trace' = ft_trace \o << [pv |-> pv, val |-> value],
                                         [pv |-> rbv, val |-> value] >>
    /\ ft_todo' = Tail(ft_todo)
    /\ UNCHANGED <<AD_FrameType_schemes, ft_args, ft_pc, ft_err>>

\* the loop is exhausted: the function returns
SetupReturn ==
    /\ ft_pc = "loop"
    /\ ft_todo = <<>>
    /\ ft_pc' = "returned"
    /\ UNCHANGED <<AD_FrameType_schemes, pvs, ft_args, ft_todo, ft_err, ft_trace>>

InitFrameType == FrameTypeIdle /\ PrimeUnused /\ StageUnused /\ NoDatums /\ NoCalls /\ PathUnused

NextFrameType ==
    \/ RegisterScheme /\ UNCHANGED notFtVars
    \/ SetupCall /\ UNCHANGED notFtVars
    \/ SetupPut /\ UNCHANGED notFtVars
    \/ SetupReturn /\ UNCHANGED notFtVars

SpecFrameType == InitFrameType /\ [][NextFrameType]_vars

-----------------------------------------------------------------------------
(* Properties of the primer *)

\* the number of acknowledged writes in a trace
Puts(tr) == Cardinality({k \in DOMAIN tr : tr[k].op = "put"})

\* the value the i-th signal of sigs holds now / held when the call began
Now(i) == SigGet(cam, plugin, sigs[i])

AtEntry(i) == SigGet(entry.cam, entry.plugin, sigs[i])

\* C1: after AD_prime_plugin2 ran to completion on a plugin that was not primed,
\* each of the seven snapshotted channels holds the value it held at the snapshot.
C1_RestoredAfterPrime ==
    (ppc = "done" /\ primed_result = "no") =>
        \A i \in 1..Len(sigs) : Now(i) = AtEntry(i)

\* a completed prime in which every one of the seven channels had to be changed
C1_Witness ==
    /\ ppc = "done"
    /\ primed_result = "no"
    /\ Len(original_vals) = 7
    /\ \A i \in 1..Len(sigs) : AtEntry(i) # sigs[i].val
    /\ Puts(ptrace) = 14

\* C2: called on a plugin whose primed check is true, AD_prime_plugin2 returns
\* without any controller write: no put in the trace, no channel changed.
C2_NoWriteWhenPrimed ==
    primed_result = "yes" =>
        /\ ppc = "done"
        /\ \A k \in DOMAIN ptrace : ptrace[k].op \notin {"put", "put_failed"}
        /\ cam = entry.cam
        /\ plugin = entry.plugin

\* a call that found the plugin primed and returned, with channels that differ
\* from the priming values
C2_Witness ==
    /\ ppc = "done"
    /\ primed_result = "yes"
    /\ entry.plugin.enable = 0
    /\ entry.cam.image_mode # 0

\* C3: after AD_prime_plugin2 completed without error on a plugin that was not
\* primed, AD_plugin_primed(plugin) is True.
C3_PrimedAfterPrime ==
    (ppc = "done" /\ primed_result = "no") => AD_plugin_primed(cam, plugin)

\* a completed prime of a plugin that had never seen a frame, was disabled, and
\* whose camera was set to a long exposure on an external trigger
C3_Witness ==
    /\ ppc = "done"
    /\ primed_result = "no"
    /\ entry.plugin.array_size = ZeroSize
    /\ entry.cam.array_size = ZeroSize
    /\ entry.plugin.enable = 0
    /\ entry.cam.array_callbacks = 0
    /\ entry.cam.trigger_mode = 1
    /\ entry.cam.acquire_time = LongTime
    /\ plugin.array_size # ZeroSize

\* C4: if a put of the prime sequence fails, the sequence stops at that step with
\* the error surfaced and no further write: channels written before the failure
\* and not restored keep the priming values, and no restore follows a failure.
C4_AbortOnFailure ==
    /\ (perr # NoErr) => ppc = "error"
    /\ (ppc = "error") =>
        /\ perr # NoErr
        /\ ptrace[Len(ptrace)].op = "put_failed"
        /\ \A k \in 1..(Len(ptrace) - 1) : ptrace[k].op # "put_failed"
        /\ (perr.phase = "set") =>
              /\ Puts(ptrace) = perr.step - 1
              /\ \A j \in 1..Len(sigs) :
                    Now(j) = IF j < perr.step THEN sigs[j].val ELSE AtEntry(j)
        /\ (perr.phase = "restore") =>
              /\ Puts(ptrace) = Len(sigs) + (Len(sigs) - perr.step)
              /\ \A j \in 1..Len(sigs) :
                    Now(j) = IF j <= perr.step THEN sigs[j].val ELSE AtEntry(j)

\* the fourth put of the set phase failed: three channels that held other values
\* were overwritten and stay overwritten
C4_Witness ==
    /\ ppc = "error"
    /\ perr.phase = "set"
    /\ perr.step = 4
    /\ \A j \in 1..3 : AtEntry(j) # sigs[j].val /\ Now(j) = sigs[j].val
    /\ Puts(ptrace) = 3

\* the four conditions of the primed check as the claim lists them
FourConditions(c, p) ==
    /\ SeqSum(c.array_size) # 0
    /\ SeqSum(p.array_size) # 0
    /\ c.color_mode = p.color_mode
    /\ c.data_type = p.data_type

\* C5 as stated: AD_plugin_primed returns True exactly when the four listed
\* conditions hold, and nothing else affects the result.
C5_FourConditionsOnly ==
    (primed_result # "unknown") =>
        ((primed_result = "yes") <=> FourConditions(entry.cam, entry.plugin))

\* C5 as amended: AD_plugin_primed returns True exactly when the four listed
\* conditions hold and the camera's array_size equals the plugin's array_size.
C5_FiveConditions ==
    (primed_result # "unknown") =>
        ((primed_result = "yes") <=>
            /\ FourConditions(entry.cam, entry.plugin)
            /\ entry.cam.array_size = entry.plugin.array_size)

\* the check answered False although the four listed conditions hold: the two
\* array sizes are both nonzero and differ
C5_Witness ==
    /\ primed_result = "no"
    /\ FourConditions(entry.cam, entry.plugin)
    /\ entry.cam.array_size # entry.plugin.array_size

\* the seven channels in the order of the setting schedule, with the values set
Schedule ==
    << <<"plugin", "enable", 1>>, <<"cam", "array_callbacks", 1>>,
       <<"cam", "image_mode", 0>>, <<"cam", "trigger_mode", 0>>,
       <<"cam", "acquire_time", 1>>, <<"cam", "acquire_period", 1>>,
       <<"cam", "acquire", 1>> >>

PriorValue(k) == IF Schedule[k][1] = "plugin" THEN entry.plugin[Schedule[k][2]]
                 ELSE entry.cam[Schedule[k][2]]

\* the trace the schedule prescribes: seven reads, seven writes, then the seven
\* restore writes in reverse order
ScheduleTrace ==
    [k \in 1..7 |-> [op |-> "get", dev |-> Schedule[k][1], attr |-> Schedule[k][2],
                     val |-> 0]]
    \o [k \in 1..7 |-> [op |-> "put", dev |-> Schedule[k][1], attr |-> Schedule[k][2],
                        val |-> Schedule[k][3]]]
    \o [k \in 1..7 |-> [op |-> "put", dev |-> Schedule[8 - k][1],
                        attr |-> Schedule[8 - k][2], val |-> PriorValue(8 - k)]]

IsPrefix(s, t) == Len(s) <= Len(t) /\ \A k \in DOMAIN s : s[k] = t[k]

C22_PrimedIsPure ==
    /\ \A k \in DOMAIN primed_trace : primed_trace[k].op = "get"
    /\ primed_results # <<>> => (cam = entry.cam /\ plugin = entry.plugin)
    /\ \A i, j \in DOMAIN primed_results : primed_results[i] = primed_results[j]
    /\ \A i \in DOMAIN primed_results :
         primed_results[i] = AD_plugin_primed(entry.cam, entry.plugin)

\* two calls on a controller whose plugin is disabled, both answering True
C22_Witness ==
    /\ primed_results = <<TRUE, TRUE>>
    /\ Len(primed_trace) = 16
    /\ plugin.enable = 0
    /\ entry.plugin.enable = 0

\* two calls both answering False
C22_WitnessNotPrimed ==
    /\ primed_results = <<FALSE, FALSE>>
    /\ plugin.array_size # cam.array_size

-----------------------------------------------------------------------------
(* Properties of the adapters *)

Constructed == spc \notin {"new", "unused"}

\* C6 as stated: for both variants, after construction the stage-sig collection
\* has capture as its last entry, whatever it held before the adapter's entries
\* were added.
C6_CaptureLast ==
    Constructed => /\ stage_sigs # <<>>
                   /\ stage_sigs[Len(stage_sigs)].key = "capture"

\* the positions of strace at which stage() reads the controller's file_number
FileNumberReads == {k \in DOMAIN strace : strace[k].op = "get" /\ strace[k].attr = "file_number"}

\* the filename the template gives for file number n
NameWith(n) ==
    Format(chan.file_template, << StrArg(loc.read_path), StrArg(loc.filename), IntArg(n) >>)

\* C7: the file number in the reconstructed filename is the controller's
\* file_number read once, right after the file_name write and before the base
\* staging; stage() never writes file_number; the snapshot uses the number n the
\* controller held when stage() began.
C7_SnapshotFileNumber ==
    /\ \A k \in DOMAIN strace :
          strace[k].op \in {"put", "put_failed"} => strace[k].attr # "file_number"
    /\ \A k \in FileNumberReads :
          /\ strace[k - 1].op = "put" /\ strace[k - 1].attr = "file_name"
          /\ strace[k].val = chan0.file_number
          /\ \A j \in DOMAIN strace :
                (j < k /\ strace[j].op = "put") => strace[j].attr \in {"capture", "file_path", "file_name"}
          /\ \A j \in DOMAIN strace : (j < k) => Access("put", "capture", 1) # strace[j]
    /\ Cardinality(FileNumberReads) <= 1
    /\ (spc \in {"base", "template", "path_check", "emit", "staged"}) =>
          /\ Cardinality(FileNumberReads) = 1
          /\ loc.file_number = chan0.file_number
    /\ (self_fn # <<>> /\ NameWith(chan0.file_number).ok) =>
          self_fn = NameWith(chan0.file_number).val

\* a completed HDF5 stage that began with file_number 2, during which the
\* controller advanced file_number: the snapshot name carries 0002
C7_Witness ==
    /\ spc = "staged"
    /\ variant = "HDF5"
    /\ chan0.file_number = 2
    /\ chan.file_number = 3
    /\ chan.file_template = Hdf5Template
    /\ self_fn = loc.read_path \o loc.filename \o <<"_", "0", "0", "0", "2", ".h5">>

\* op with a failed put counted as the put that was attempted
OpClass(e) == IF e.op = "put_failed" THEN "put" ELSE e.op

\* the accesses of one stage(), in the order the claim lists them
ExpectedAccess(k) ==
    LET n == Len(stage_sigs)
    IN  IF k = 1 THEN {<<"get", "file_name">>}
        ELSE IF k = 2 THEN {<<"get", "file_path">>}
        ELSE IF k = 3 THEN {<<"put", "capture">>}
        ELSE IF k = 4 THEN {<<"put", "file_path">>}
        ELSE IF k = 5 THEN {<<"put", "file_name">>}
        ELSE IF k = 6 THEN {<<"get", "file_number">>}
        ELSE IF k <= 6 + n THEN {<<"put", stage_sigs[k - 6].key>>}
        ELSE IF k = 7 + n THEN {<<"get", "file_template">>}
        ELSE IF k = 8 + n THEN {<<"get", "file_path_exists">>}
        ELSE IF k = 9 + n THEN {<<"get", "num_capture">>, <<"get", "file_path">>}
        ELSE IF k = 10 + n THEN {<<"emit", "resource">>}
        ELSE {}

\* the order of stage()'s controller operations, the place of capture<-1 aside
StageOrder ==
    /\ \A k \in DOMAIN strace : <<OpClass(strace[k]), strace[k].attr>> \in ExpectedAccess(k)
    /\ \A k \in DOMAIN strace : (strace[k].op = "put_failed") => k = Len(strace)
    /\ (Len(strace) >= 3 /\ strace[3].op = "put") => strace[3].val = 0
    /\ (Len(strace) >= 4 /\ strace[4].op = "put") => strace[4].val = loc.write_path
    /\ (Len(strace) >= 5 /\ strace[5].op = "put") => strace[5].val = loc.filename

\* the base staging writes capture<-1 as its last put
BaseStagingEndsWithCapture ==
    (spc \in {"template", "path_check", "emit", "staged"}) =>
        strace[6 + Len(stage_sigs)] = Access("put", "capture", 1)

\* C8 as stated: in every stage() of both variants the operations occur in the
\* order capture<-0, file_path, file_name, read of file_number, base staging with
\* capture<-1 last, read of file_template, file_path_exists check, emission.
C8_StageOrder == StageOrder /\ BaseStagingEndsWithCapture

\* C9: if file_path_exists is false when stage() checks it, stage() fails with
\* PathMissing naming the controller's file_path and emits no resource document.
C9_PathMissing ==
    /\ \A k \in DOMAIN strace :
          (strace[k].attr = "file_path_exists" /\ ~strace[k].val) =>
              /\ spc = "error"
              /\ serr.kind = "PathMissing"
              /\ serr.path = chan.file_path
              /\ resources = <<>>
    /\ (serr.kind = "PathMissing") => ~chan.file_path_exists

\* an HDF5 stage stopped by PathMissing, the error naming the expanded path that
\* stage() itself wrote to file_path
C9_Witness ==
    /\ spc = "error"
    /\ serr.kind = "PathMissing"
    /\ variant = "HDF5"
    /\ chan0.file_path = <<"/data/", "%Y", "/">>
    /\ serr.path = <<"/data/", "2024", "/">>
    /\ resources = <<>>

\* C10: a stage() that completes emits exactly one resource document, tagged
\* AD_HDF5 or AD_JPEG after the variant and with frame_per_point equal to the
\* controller's num_capture; a stage() that fails emits none.
C10_OneResource ==
    /\ Len(resources) <= 1
    /\ (spc = "staged") =>
          /\ Len(resources) = 1
          /\ resources[1].spec = (IF variant = "HDF5" THEN "AD_HDF5" ELSE "AD_JPEG")
          /\ resources[1].frame_per_point = chan.num_capture
    /\ (spc # "staged") => resources = <<>>

\* a completed JPEG stage whose resource document carries num_capture = 3
C10_Witness ==
    /\ spc = "staged"
    /\ variant = "JPEG"
    /\ chan.num_capture = 3
    /\ resources = << [spec |-> "AD_JPEG", frame_per_point |-> 3] >>

\* the number of substitution slots of a template
RECURSIVE Slots(_)
Slots(template) ==
    IF template = <<>> THEN 0
    ELSE (IF Head(template) \in {"%s", "%4.4d"} THEN 1 ELSE 0) + Slots(Tail(template))

\* stage() has gone past lines 388-397 / 574-583, where the name is reconstructed
TemplateApplied ==
    \/ spc \in {"path_check", "emit", "staged"}
    \/ spc = "error" /\ serr.kind \in {"TypeError", "PathMissing"}

\* C16: at stage the reconstructed filename is template % (read_path, filename,
\* file_number) for a template with three slots and template % (read_path,
\* filename) for one with exactly two; with any other number of slots both forms
\* fail and the error is surfaced: stage does not complete and emits no resource.
C16_TemplateArity ==
    TemplateApplied =>
        CASE Slots(chan.file_template) = 3 ->
                /\ serr.kind # "TypeError"
                /\ self_fn = Format(chan.file_template,
                                    << StrArg(loc.read_path), StrArg(loc.filename),
                                       IntArg(loc.file_number) >>).val
          [] Slots(chan.file_template) = 2 ->
                /\ serr.kind # "TypeError"
                /\ self_fn = Format(chan.file_template,
                                    << StrArg(loc.read_path), StrArg(loc.filename) >>).val
          [] OTHER ->
                /\ spc = "error"
                /\ serr.kind = "TypeError"
                /\ resources = <<>>

\* a stage that completed with a two-slot template
C16_Witness ==
    /\ spc = "staged"
    /\ Slots(chan.file_template) = 2
    /\ self_fn = loc.read_path \o loc.filename \o <<".h5">>
    /\ Len(resources) = 1

\* a stage that stopped on a one-slot template
C16_WitnessOneSlot ==
    /\ spc = "error"
    /\ serr.kind = "TypeError"
    /\ Slots(chan.file_template) = 1

\* the name the grammar's template gives: with the file number for three slots,
\* without it for two
ExpectedName(template, read_path, filename, file_number) ==
    IF Slots(template) = 3
      THEN Format(template, << StrArg(read_path), StrArg(filename),
                               IntArg(file_number) >>).val
      ELSE Format(template, << StrArg(read_path), StrArg(filename) >>).val

\* every datum emission in dtrace follows its four reads and carries their name
DatumsCarryName ==
    /\ \A i \in DOMAIN datums : "JPEG_file_name" \in Keys(datums[i])
    /\ \A i \in DOMAIN dtrace :
         dtrace[i].op = "datum" =>
            /\ i > 4
            /\ dtrace[i].val = ExpectedName(dtrace[i - 4].val, dtrace[i - 2].val,
                                            dtrace[i - 3].val, dtrace[i - 1].val)

\* the number of frames generate_datum has been called for
FramesSeen == Len(SelectSeq(dtrace, LAMBDA a : a.op = "get" /\ a.attr = "file_template"))

\* C17 as stated: in the JPEG variant, for every frame and every template of
\* the grammar (three slots, or two), generate_datum puts the expected file
\* name under JPEG_file_name and hands the datum on: no call fails and every
\* frame has its datum.
C17_EveryDatumCarriesName ==
    (variant = "JPEG" /\ spc = "staged" /\ Slots(chan.file_template) \in {2, 3}) =>
        /\ derr = NoDatumErr
        /\ Len(datums) = FramesSeen
        /\ DatumsCarryName

\* what holds of the code: the same for templates with three slots
C17_ThreeSlotDatumCarriesName ==
    (variant = "JPEG" /\ spc = "staged" /\ Slots(chan.file_template) = 3) =>
        /\ derr = NoDatumErr
        /\ Len(datums) = FramesSeen
        /\ DatumsCarryName

C17_WitnessThreeSlots ==
    /\ Len(datums) = 2
    /\ DictGet(datums[2], "JPEG_file_name") = <<"/data/", "scan", "_", "0", "0", "0", "1", ".jpg">>

\* C18: JPEG make_filename returns the controller's file_name as filename and
\* the controller's file_path as both read_path and write_path, and writes no
\* channel.
C18_JpegMakeFilename ==
    (variant = "JPEG" /\ spc = "prologue" /\ sidx = 1) =>
        /\ loc.filename = chan.file_name
        /\ loc.read_path = chan.file_path
        /\ loc.write_path = chan.file_path
        /\ chan = chan0
        /\ \A i \in DOMAIN strace : strace[i].op = "get"

C18_Witness ==
    /\ variant = "JPEG"
    /\ spc = "prologue"
    /\ sidx = 1
    /\ loc.read_path = <<"/data/", "%Y", "/">>
    /\ loc.write_path = <<"/data/", "%Y", "/">>
    /\ loc.filename = <<"run">>

\* C20: when stage fails with PathMissing, at the raise the failed stage has
\* not left capture switched on (capture = 1) and has not left a staging
\* snapshot (reconstructed filename, read path) on the adapter.
C20_PathMissingLeavesNothing ==
    (spc = "error" /\ serr.kind = "PathMissing") =>
        /\ chan.capture # 1
        /\ self_fn = <<>>
        /\ self_fp = <<>>

\* what holds of the code: at the raise the snapshot is recorded, and capture
\* is on whenever the base staging wrote it
C20_PathMissingAfterStaging ==
    (spc = "error" /\ serr.kind = "PathMissing") =>
        /\ self_fn # <<>>
        /\ self_fp = loc.read_path
        /\ resources = <<>>
        /\ "capture" \in Keys(stage_sigs) => chan.capture = 1

\* a channel operation of stage() has failed
PutFailed == \E k \in DOMAIN strace : strace[k].op = "put_failed"

\* the place of the failed operation in the trace
FailedAt == CHOOSE k \in DOMAIN strace : strace[k].op = "put_failed"

\* C21: if a channel write inside stage fails (capture <- 0, file_path,
\* file_name, or one of base staging), the error reaches the caller unmasked
\* and no later step of stage runs: nothing follows the failed operation in the
\* trace (no later read or write), no name is reconstructed and no resource
\* document is emitted.
C21_FailurePropagates ==
    PutFailed =>
        /\ spc = "error"
        /\ serr.kind \in PutFailures
        /\ FailedAt = Len(strace)
        /\ \A k \in DOMAIN strace : strace[k].op # "emit"
        /\ resources = <<>>
        /\ self_fn = <<>>
        /\ self_fp = <<>>

\* a failure of the second write of base staging, after the first was made
C21_Witness ==
    /\ spc = "error"
    /\ serr.kind = "TypeMismatch"
    /\ sidx = 2
    /\ strace[Len(strace)].op = "put_failed"
    /\ strace[Len(strace) - 1].op = "put"
    /\ strace[Len(strace) - 2].op = "get"
    /\ resources = <<>>

\* a failure of the first write of stage(): capture <- 0
C21_WitnessPrologue ==
    /\ spc = "error"
    /\ serr.kind = "Timeout"
    /\ strace[Len(strace)] = Access("put_failed", "capture", 0)
    /\ Len(strace) = 3

-----------------------------------------------------------------------------
(* Properties of AD_full_file_name_local *)

Tails == SeqsUpTo(TailNames, MaxTail)

\* the length of the longest common suffix of two sequences of parts
CommonSuffixLen(a, b) ==
    CHOOSE n \in 0..Min(Len(a), Len(b)) :
        /\ \A j \in 1..n : a[Len(a) - j + 1] = b[Len(b) - j + 1]
        /\ n = Min(Len(a), Len(b)) \/ a[Len(a) - n] # b[Len(b) - n]

TheReadParts == parts(path_plugin.read_path_template)

TheWriteParts == parts(path_plugin.write_path_template)

TheName == strip(path_plugin.full_file_name)

\* C11 as stated: for write and read templates with a non-empty common suffix of
\* components and any tail X, full_file_name = join(write_template, X) is
\* translated to join(read_template, X).
C11_TranslateCommonSuffix ==
    (path_pc = "returned" /\ CommonSuffixLen(TheReadParts, TheWriteParts) > 0) =>
        \A x \in Tails :
            (parts(TheName) = TheWriteParts \o x) =>
                path_result = ReturnsPath(TheReadParts \o x)

\* C11 where the code does translate: the common suffix is shorter than both
\* templates (the loop meets a differing part), or the two strings are equal
C11_TranslateWhenLoopBreaks ==
    (/\ path_pc = "returned"
     /\ CommonSuffixLen(TheReadParts, TheWriteParts) > 0
     /\ \/ CommonSuffixLen(TheReadParts, TheWriteParts) < Min(Len(TheReadParts), Len(TheWriteParts))
        \/ path_plugin.read_path_template = path_plugin.write_path_template) =>
        \A x \in Tails :
            (parts(TheName) = TheWriteParts \o x) =>
                path_result = ReturnsPath(TheReadParts \o x)

\* C12 as stated: templates not equal and no common suffix (k = 0, their last
\* components differ): the call fails with ValueError, whatever full_file_name holds.
C12_NoCommonSuffixRaises ==
    (/\ path_pc = "returned"
     /\ path_plugin.read_path_template # path_plugin.write_path_template
     /\ TheReadParts # <<>> /\ TheWriteParts # <<>>
     /\ TheReadParts[Len(TheReadParts)] # TheWriteParts[Len(TheWriteParts)]
     /\ CommonSuffixLen(TheReadParts, TheWriteParts) = 0) =>
        path_result = RaisesValueError

\* C12 as amended: templates not equal, no common suffix (k = 0) and a
\* full_file_name that is not empty once stripped: the call fails with ValueError.
C12_NoCommonSuffixRaisesForName ==
    (/\ path_pc = "returned"
     /\ path_plugin.read_path_template # path_plugin.write_path_template
     /\ CommonSuffixLen(TheReadParts, TheWriteParts) = 0
     /\ ~IsEmptyString(TheName)) =>
        path_result = RaisesValueError

\* two templates of two names each whose last names differ, a file below the
\* write directory: the call raised
C12_Witness ==
    /\ path_pc = "returned"
    /\ Len(path_plugin.read_path_template.comps) = 2
    /\ Len(path_plugin.write_path_template.comps) = 2
    /\ path_plugin.read_path_template.comps[2] # path_plugin.write_path_template.comps[2]
    /\ parts(TheName) = TheWriteParts \o <<"f">>
    /\ path_result = RaisesValueError

\* C13: when read_path_template equals write_path_template, every non-empty
\* full_file_name comes back as it is (as a path, whitespace stripped), and
\* ValueError is not raised.
C13_EqualTemplatesIdentity ==
    (/\ path_pc = "returned"
     /\ path_plugin.read_path_template = path_plugin.write_path_template
     /\ ~IsEmptyString(TheName)) =>
        path_result = ReturnsPath(parts(TheName))

\* equal templates of two names, a file two levels below: returned as it is
C13_Witness ==
    /\ path_pc = "returned"
    /\ path_plugin.read_path_template = path_plugin.write_path_template
    /\ path_plugin.read_path_template = [abs |-> TRUE, comps |-> <<"a", "b">>, slash |-> TRUE]
    /\ path_result = ReturnsPath(<<"/", "a", "b", "b", "f">>)

-----------------------------------------------------------------------------
(* Properties of AD_setup_FrameType *)

\* the mapping the call looked up
TheScheme == DictGet(AD_FrameType_schemes, ft_args.scheme)

\* the channels the call has written, from its caput calls
WrittenPVs == {ft_trace[i].pv : i \in DOMAIN ft_trace}

Holds(rbv, slot, value) == pvs[PVName(ft_args.prefix, rbv, slot)] = value

ThreeSlots == {"ZRST", "ONST", "TWST"}

NamesInMessage == {ft_err.msg[i] : i \in 4 .. Len(ft_err.msg)}

\* C15: a call with a scheme name that is not a key of the table fails with
\* ValueError whose message lists every registered scheme name, and writes
\* no channel.
C15_UnknownScheme ==
    (ft_pc # "idle" /\ ft_args.scheme \notin Keys(AD_FrameType_schemes)) =>
        /\ ft_pc = "error"
        /\ ft_err.kind = "ValueError"
        /\ Keys(AD_FrameType_schemes) \subseteq NamesInMessage
        /\ ft_trace = <<>>
        /\ pvs \in InitialPVs

C15_Witness ==
    /\ ft_pc = "error"
    /\ ft_args.scheme = "Invalid"
    /\ Keys(AD_FrameType_schemes) = Keys(BuiltinSchemes) \cup RuntimeNames
    /\ "other" \in NamesInMessage

\* a is a proper suffix of b, and not empty
ProperSuffix(a, b) ==
    /\ a # <<>>
    /\ Len(a) < Len(b)
    /\ \A j \in 1..Len(a) : a[j] = b[Len(b) - Len(a) + j]

OneIsProperSuffix ==
    \/ ProperSuffix(TheReadParts, TheWriteParts)
    \/ ProperSuffix(TheWriteParts, TheReadParts)

\* C23: when the templates differ and the components of one are a proper
\* suffix of the components of the other, the shorter template is taken as the
\* common tail and the translated local path is returned; ValueError is not
\* raised.
C23_ProperSuffixTranslates ==
    (path_pc = "returned" /\ OneIsProperSuffix /\ ~IsEmptyString(TheName)) =>
        /\ path_result # RaisesValueError
        /\ \A x \in Tails :
             (parts(TheName) = TheWriteParts \o x) =>
                 path_result = ReturnsPath(TheReadParts \o x)

\* what holds of the code in that case: every call with a file name raises
C23_ProperSuffixRaises ==
    (path_pc = "returned" /\ OneIsProperSuffix /\ ~IsEmptyString(TheName)) =>
        path_result = RaisesValueError

\* C24: when full_file_name is empty or only whitespace, the call returns None
\* for every pair of templates, also for templates with no common suffix; it
\* does not raise ValueError.
C24_NoNameReturnsNone ==
    (/\ path_pc = "returned"
     /\ path_plugin.full_file_name.comps = <<>>
     /\ ~path_plugin.full_file_name.abs) =>
        path_result = ReturnsNone

\* a name of whitespace only, templates whose last names differ: None
C24_Witness ==
    /\ path_pc = "returned"
    /\ path_plugin.full_file_name.ws
    /\ path_plugin.full_file_name.comps = <<>>
    /\ TheReadParts = <<"/", "a">>
    /\ TheWriteParts = <<"/", "b">>
    /\ CommonSuffixLen(TheReadParts, TheWriteParts) = 0
    /\ path_result = ReturnsNone

====
